---- MODULE Spec2Model ----
(***************************************************************************)
(* A model of the output-parsing core of contrib/Python/cntk/context.py:   *)
(* the tabular result decoder (_parse_result_output), the numeric token    *)
(* sanitizer (_sanitized_asarray), the shape text parser                   *)
(* (_parse_shapes_from_output) and the shape resolver                      *)
(* (_calc_expected_shape_and_size).                                        *)
(*                                                                         *)
(* Text is a sequence of one-character strings, so that split, strip and   *)
(* the regular expressions are computed character by character.  A float   *)
(* is a record: an exact decimal, a NaN or an infinity.  An ndarray is a   *)
(* record of a shape and its elements in row-major (C) order.              *)
(***************************************************************************)
EXTENDS Integers, Sequences, FiniteSets, TLC

VARIABLES
    \* _parse_result_output: the argument, the line iterator and the locals
    output, lines, last_seq_idx, list_of_tensors, tensor_seq, shape,
    pc, exc, result,
    \* _calc_expected_shape_and_size: shapes[node.name], data.size, outcome
    node_shape, data_size, resolved,
    \* _parse_shapes_from_output: the argument and the outcome
    log_output, var_shape,
    \* _sanitized_asarray: the caller's list before the call, and the outcome
    \* with the caller's list after it
    san_data, san_out,
    \* _parse_test_result: the argument and the outcome
    test_output, test_result,
    \* _call_cntk: the external process (exit status, captured bytes and
    \* whether they decode), the files written, and the outcome
    proc_exit, proc_output, proc_decodes, files, call_out,
    \* the module's registry _CONTEXT, the LocalExecutionContext instances
    \* created so far, the directories on disk, and the last call made
    _CONTEXT, instances, dirs, reg_last,
    \* LocalExecutionContext.eval: the node's tag and the outcome
    node_tag, eval_out,
    \* DeferredExecutionContext: its lists, its directory attribute, the
    \* exported file, and the names of the action calls that returned
    config, actions, directory, exported, succeeded, def_last

vars == <<output, lines, last_seq_idx, list_of_tensors, tensor_seq, shape,
          pc, exc, result, node_shape, data_size, resolved,
          log_output, var_shape, san_data, san_out, test_output, test_result,
          proc_exit, proc_output, proc_decodes, files, call_out,
          _CONTEXT, instances, dirs, reg_last, node_tag, eval_out,
          config, actions, directory, exported, succeeded, def_last>>

decoderVars == <<output, lines, last_seq_idx, list_of_tensors, tensor_seq,
                 shape, pc, exc, result>>
resolverVars == <<node_shape, data_size, resolved>>
shapesVars == <<log_output, var_shape>>
sanitizerVars == <<san_data, san_out>>
testVars == <<test_output, test_result>>
callVars == <<proc_exit, proc_output, proc_decodes, files, call_out>>
registryVars == <<_CONTEXT, instances, dirs, reg_last>>
evalVars == <<node_tag, eval_out>>
deferredVars == <<config, actions, directory, exported, succeeded, def_last>>

\* The variables of the components added to the three parsers.
laterVars == <<sanitizerVars, testVars, callVars, registryVars, evalVars,
               deferredVars>>

-----------------------------------------------------------------------------
(* Python str operations on character sequences.                           *)

\* An optional value: <<>> is None, <<v>> is the value v.
None == <<>>
Some(v) == <<v>>

\* str.strip() with no argument removes these from both ends.
IsWhite(c) == c \in {" ", "\t", "\n", "\r"}

RECURSIVE LStrip(_)
LStrip(s) == IF s # <<>> /\ IsWhite(Head(s)) THEN LStrip(Tail(s)) ELSE s

RECURSIVE RStrip(_)
RStrip(s) ==
    IF s # <<>> /\ IsWhite(s[Len(s)])
    THEN RStrip(SubSeq(s, 1, Len(s) - 1))
    ELSE s

Strip(s) == RStrip(LStrip(s))

\* The position of the first c in s, 0 when there is none.
IndexOf(s, c) ==
    IF \E i \in 1..Len(s) : s[i] = c
    THEN CHOOSE i \in 1..Len(s) : s[i] = c /\ \A j \in 1..(i - 1) : s[j] # c
    ELSE 0

\* str.split(sep) for a one-character separator: never the empty list.
RECURSIVE Split(_, _)
Split(s, sep) ==
    LET i == IndexOf(s, sep)
    IN  IF i = 0
        THEN <<s>>
        ELSE <<SubSeq(s, 1, i - 1)>> \o Split(SubSeq(s, i + 1, Len(s)), sep)

\* str.splitlines() on text whose only line boundary is "\n": no lines for
\* the empty text, and no empty last line after a final "\n".
SplitLines(s) ==
    IF s = <<>>
    THEN <<>>
    ELSE LET parts == Split(s, "\n")
         IN  IF parts[Len(parts)] = <<>>
             THEN SubSeq(parts, 1, Len(parts) - 1)
             ELSE parts

\* str.startswith
StartsWith(s, p) == Len(s) >= Len(p) /\ SubSeq(s, 1, Len(p)) = p

\* The longest prefix of s holding no character of the set stop.
RECURSIVE TakeUntil(_, _)
TakeUntil(s, stop) ==
    IF s = <<>> \/ Head(s) \in stop
    THEN <<>>
    ELSE <<Head(s)>> \o TakeUntil(Tail(s), stop)

Drop(s, n) == SubSeq(s, n + 1, Len(s))

\* "\n".join(ls)
RECURSIVE JoinLines(_)
JoinLines(ls) ==
    IF ls = <<>> THEN <<>>
    ELSE IF Len(ls) = 1 THEN ls[1]
    ELSE ls[1] \o <<"\n">> \o JoinLines(Tail(ls))

-----------------------------------------------------------------------------
(* Numbers.                                                                *)

DigitChars == <<"0", "1", "2", "3", "4", "5", "6", "7", "8", "9">>
IsDigit(c) == \E i \in 1..10 : DigitChars[i] = c
DigitVal(c) == (CHOOSE i \in 1..10 : DigitChars[i] = c) - 1

RECURSIVE NatVal(_)
NatVal(ds) ==
    IF ds = <<>> THEN 0
    ELSE 10 * NatVal(SubSeq(ds, 1, Len(ds) - 1)) + DigitVal(ds[Len(ds)])

AllDigits(s) == s # <<>> /\ \A i \in 1..Len(s) : IsDigit(s[i])

HasSign(s) == s # <<>> /\ Head(s) \in {"-", "+"}
Unsigned(s) == IF HasSign(s) THEN Tail(s) ELSE s
IsNeg(s) == s # <<>> /\ Head(s) = "-"

\* int(x) on a stripped token: an optional sign and decimal digits.
\* [ok |-> FALSE] stands for the ValueError.
ParseInt(s) ==
    IF AllDigits(Unsigned(s))
    THEN [ok |-> TRUE,
          v |-> IF IsNeg(s) THEN 0 - NatVal(Unsigned(s)) ELSE NatVal(Unsigned(s))]
    ELSE [ok |-> FALSE, v |-> 0]

\* A float: k is "num" (the decimal ip.fp, fp without trailing zeros),
\* "nan" or "inf"; neg is the sign bit.
Num(neg, ip, fp) == [k |-> "num", neg |-> neg, ip |-> ip, fp |-> fp]
NaN(neg) == [k |-> "nan", neg |-> neg, ip |-> 0, fp |-> <<>>]
Inf(neg) == [k |-> "inf", neg |-> neg, ip |-> 0, fp |-> <<>>]

RECURSIVE StripZeros(_)
StripZeros(ds) ==
    IF ds # <<>> /\ ds[Len(ds)] = "0"
    THEN StripZeros(SubSeq(ds, 1, Len(ds) - 1))
    ELSE ds

\* float(x) for the spellings the external tool prints: a signed decimal
\* with an optional fraction, and the native nan / inf words.
ParseFloat(s) ==
    LET u == Unsigned(s)
        dot == IndexOf(u, ".")
        ipart == IF dot = 0 THEN u ELSE SubSeq(u, 1, dot - 1)
        fpart == IF dot = 0 THEN <<>> ELSE Drop(u, dot)
        digitsOk ==
            /\ \A i \in 1..Len(ipart) : IsDigit(ipart[i])
            /\ \A i \in 1..Len(fpart) : IsDigit(fpart[i])
            /\ Len(ipart) + Len(fpart) > 0
    IN  IF u = <<"n", "a", "n">> THEN [ok |-> TRUE, v |-> NaN(IsNeg(s))]
        ELSE IF u = <<"i", "n", "f">> THEN [ok |-> TRUE, v |-> Inf(IsNeg(s))]
        ELSE IF digitsOk
        THEN [ok |-> TRUE, v |-> Num(IsNeg(s), NatVal(ipart), StripZeros(fpart))]
        ELSE [ok |-> FALSE, v |-> NaN(FALSE)]

-----------------------------------------------------------------------------
(* ndarrays.                                                               *)

Array(shp, es) == [shape |-> shp, elems |-> es]

RECURSIVE Prod(_)
Prod(s) == IF s = <<>> THEN 1 ELSE Head(s) * Prod(Tail(s))

RECURSIVE Concat(_)
Concat(ss) == IF ss = <<>> THEN <<>> ELSE Head(ss) \o Concat(Tail(ss))

\* The i-th index of the element at row-major position p of shape shp.
CIndex(p, shp, i) == (p \div Prod(SubSeq(shp, i + 1, Len(shp)))) % shp[i]

\* The column-major position of the element at row-major position p.
RECURSIVE FOffset(_, _, _)
FOffset(p, shp, i) ==
    IF i > Len(shp)
    THEN 0
    ELSE CIndex(p, shp, i) * Prod(SubSeq(shp, 1, i - 1)) + FOffset(p, shp, i + 1)

\* ndarray.reshape(shp, order='F') of a one-dimensional array: the k-th
\* element goes to the k-th position in column-major order.  The
\* dimensions of this model's inputs are unsigned, so no -1 is inferred.
ReshapeF(a, shp) ==
    IF (\E i \in 1..Len(shp) : shp[i] < 0) \/ Prod(shp) # Len(a.elems)
    THEN [ok |-> FALSE, arr |-> a]
    ELSE [ok |-> TRUE,
          arr |-> Array(shp, [p \in 1..Len(a.elems) |->
                                 a.elems[FOffset(p - 1, shp, 1) + 1]])]

\* np.asarray(ts) of a list of equally shaped ndarrays: they are stacked
\* along a new first axis; the empty list gives the empty array of shape (0,).
Stack(ts) ==
    IF ts = <<>>
    THEN Array(<<0>>, <<>>)
    ELSE Array(<<Len(ts)>> \o ts[1].shape,
               Concat([i \in 1..Len(ts) |-> ts[i].elems]))

-----------------------------------------------------------------------------
(* _sanitized_asarray                                                      *)

IND == <<"1", ".", "#", "I", "N", "D">>
NEG_IND == <<"-", "1", ".", "#", "I", "N", "D">>
INF == <<"1", ".", "#", "I", "N", "F">>
NEG_INF == <<"-", "1", ".", "#", "I", "N", "F">>

\* An entry of the caller's list: a token still a str, or a float put there.
StrItem(tok) == [isstr |-> TRUE, s |-> tok, v |-> NaN(FALSE)]
FloatItem(v) == [isstr |-> FALSE, s |-> <<>>, v |-> v]

\* A fallback pass that loses the sign of the negative infinity prefix.
SanitizeItemUnsigned(tok) ==
    IF ParseFloat(tok).ok THEN FloatItem(ParseFloat(tok).v)
    ELSE IF StartsWith(tok, IND) THEN FloatItem(NaN(FALSE))
    ELSE IF StartsWith(tok, NEG_IND) THEN FloatItem(NaN(TRUE))
    ELSE IF StartsWith(tok, INF) THEN FloatItem(Inf(FALSE))
    ELSE IF StartsWith(tok, NEG_INF) THEN FloatItem(Inf(FALSE))
    ELSE StrItem(tok)

\* One pass of the fallback loop over data[i].
SanitizeItem(tok) ==
    IF ParseFloat(tok).ok THEN FloatItem(ParseFloat(tok).v)
    ELSE IF StartsWith(tok, IND) THEN FloatItem(NaN(FALSE))
    ELSE IF StartsWith(tok, NEG_IND) THEN FloatItem(NaN(TRUE))
    ELSE IF StartsWith(tok, INF) THEN FloatItem(Inf(FALSE))
    ELSE IF StartsWith(tok, NEG_INF) THEN FloatItem(Inf(TRUE))
    ELSE StrItem(tok)

\* _sanitized_asarray(data) for a list of str tokens.  ok = FALSE is the
\* ValueError; data is the caller's list as the call leaves it.
_sanitized_asarray(data) ==
    IF \A i \in 1..Len(data) : ParseFloat(data[i]).ok
    THEN [ok |-> TRUE,
          arr |-> Array(<<Len(data)>>, [i \in 1..Len(data) |-> ParseFloat(data[i]).v]),
          data |-> [i \in 1..Len(data) |-> StrItem(data[i])]]
    ELSE LET after == [i \in 1..Len(data) |-> SanitizeItem(data[i])]
         IN  [ok |-> \A i \in 1..Len(data) : ~after[i].isstr,
              arr |-> Array(<<Len(data)>>, [i \in 1..Len(data) |-> after[i].v]),
              data |-> after]

-----------------------------------------------------------------------------
(* _parse_result_output                                                    *)

W_SHAPE == <<"w", ".", "s", "h", "a", "p", "e">>

\* cntk.utils.cntk_to_numpy_shape: the declared dimensions as integers
\* without the last one, the sequence axis; (1,) when nothing is left.
cntk_to_numpy_shape(tokens) ==
    IF \E i \in 1..Len(tokens) : ~ParseInt(tokens[i]).ok
    THEN [ok |-> FALSE, shape |-> <<>>]
    ELSE LET ints == [i \in 1..Len(tokens) |-> ParseInt(tokens[i]).v]
             kept == SubSeq(ints, 1, Len(ints) - 1)
         IN  [ok |-> TRUE, shape |-> IF kept = <<>> THEN <<1>> ELSE kept]

\* The fields of one line, as the loop body takes them apart.
LineParts(line) == Split(Strip(line), "|")
HasPayload(line) == Len(LineParts(line)) >= 2
SeqIdx(line) == Strip(LineParts(line)[1])
PayloadParts(line) == Split(LineParts(line)[2], " ")
Info(line) == PayloadParts(line)[1]
Data(line) == Tail(PayloadParts(line))

\* LoopBody with the line of a changed index and a tag other than w.shape
\* skipped instead of rejected.
LoopBodySkipping(st, line) ==
    IF ~HasPayload(line)
    THEN [st EXCEPT !.exc = "IndexError"]
    ELSE IF Some(SeqIdx(line)) # st.last_seq_idx
    THEN IF Info(line) # W_SHAPE
         THEN st
         ELSE LET shp == cntk_to_numpy_shape(Data(line))
              IN  [st EXCEPT !.list_of_tensors =
                                 IF st.tensor_seq # <<>>
                                 THEN Append(st.list_of_tensors, Stack(st.tensor_seq))
                                 ELSE st.list_of_tensors,
                             !.tensor_seq = <<>>,
                             !.last_seq_idx = Some(SeqIdx(line)),
                             !.shape = IF shp.ok THEN Some(shp.shape) ELSE st.shape,
                             !.exc = IF shp.ok THEN "none" ELSE "ValueError"]
    ELSE LET arr == _sanitized_asarray(Data(line))
             shaped == ReshapeF(arr.arr, st.shape[1])
         IN  IF ~arr.ok \/ ~shaped.ok
             THEN [st EXCEPT !.exc = "ValueError"]
             ELSE [st EXCEPT !.tensor_seq = Append(st.tensor_seq, shaped.arr)]

\* LoopBody with the accumulator kept, not reset, when a sequence is
\* finalized.
LoopBodyNoReset(st, line) ==
    IF ~HasPayload(line)
    THEN [st EXCEPT !.exc = "IndexError"]
    ELSE IF Some(SeqIdx(line)) # st.last_seq_idx
    THEN IF Info(line) # W_SHAPE
         THEN [st EXCEPT !.exc = "ValueError"]
         ELSE LET shp == cntk_to_numpy_shape(Data(line))
              IN  [st EXCEPT !.list_of_tensors =
                                 IF st.tensor_seq # <<>>
                                 THEN Append(st.list_of_tensors, Stack(st.tensor_seq))
                                 ELSE st.list_of_tensors,
                             !.last_seq_idx = Some(SeqIdx(line)),
                             !.shape = IF shp.ok THEN Some(shp.shape) ELSE st.shape,
                             !.exc = IF shp.ok THEN "none" ELSE "ValueError"]
    ELSE LET arr == _sanitized_asarray(Data(line))
             shaped == ReshapeF(arr.arr, st.shape[1])
         IN  IF ~arr.ok \/ ~shaped.ok
             THEN [st EXCEPT !.exc = "ValueError"]
             ELSE [st EXCEPT !.tensor_seq = Append(st.tensor_seq, shaped.arr)]

\* LoopBody with the accumulator finalized at every change of index, empty
\* or not.
LoopBodyAlwaysFlushing(st, line) ==
    IF ~HasPayload(line)
    THEN [st EXCEPT !.exc = "IndexError"]
    ELSE IF Some(SeqIdx(line)) # st.last_seq_idx
    THEN IF Info(line) # W_SHAPE
         THEN [st EXCEPT !.exc = "ValueError"]
         ELSE LET shp == cntk_to_numpy_shape(Data(line))
              IN  [st EXCEPT !.list_of_tensors =
                                 IF st.last_seq_idx # None
                                 THEN Append(st.list_of_tensors, Stack(st.tensor_seq))
                                 ELSE st.list_of_tensors,
                             !.tensor_seq = <<>>,
                             !.last_seq_idx = Some(SeqIdx(line)),
                             !.shape = IF shp.ok THEN Some(shp.shape) ELSE st.shape,
                             !.exc = IF shp.ok THEN "none" ELSE "ValueError"]
    ELSE LET arr == _sanitized_asarray(Data(line))
             shaped == ReshapeF(arr.arr, st.shape[1])
         IN  IF ~arr.ok \/ ~shaped.ok
             THEN [st EXCEPT !.exc = "ValueError"]
             ELSE [st EXCEPT !.tensor_seq = Append(st.tensor_seq, shaped.arr)]

\* The locals after one pass of the loop body over line; exc tells how the
\* pass ended: "none", or the exception that left the function.  The
\* finalized sequence goes through _sanitized_asarray, whose np.asarray
\* takes a list of equally shaped ndarrays as it is: Stack.
LoopBody(st, line) ==
    IF ~HasPayload(line)
    THEN [st EXCEPT !.exc = "IndexError"]
    ELSE IF Some(SeqIdx(line)) # st.last_seq_idx
    THEN IF Info(line) # W_SHAPE
         THEN [st EXCEPT !.exc = "ValueError"]
         ELSE LET flushed ==
                      IF st.tensor_seq # <<>>
                      THEN Append(st.list_of_tensors, Stack(st.tensor_seq))
                      ELSE st.list_of_tensors
                  shp == cntk_to_numpy_shape(Data(line))
              IN  IF ~shp.ok
                  THEN [st EXCEPT !.list_of_tensors = flushed,
                                  !.tensor_seq = <<>>,
                                  !.last_seq_idx = Some(SeqIdx(line)),
                                  !.exc = "ValueError"]
                  ELSE [st EXCEPT !.list_of_tensors = flushed,
                                  !.tensor_seq = <<>>,
                                  !.last_seq_idx = Some(SeqIdx(line)),
                                  !.shape = Some(shp.shape)]
    ELSE LET arr == _sanitized_asarray(Data(line))
             shaped == ReshapeF(arr.arr, st.shape[1])
         IN  IF ~arr.ok \/ ~shaped.ok
             THEN [st EXCEPT !.exc = "ValueError"]
             ELSE [st EXCEPT !.tensor_seq = Append(st.tensor_seq, shaped.arr)]

Locals == [last_seq_idx |-> last_seq_idx, list_of_tensors |-> list_of_tensors,
           tensor_seq |-> tensor_seq, shape |-> shape, exc |-> exc]

\* The values of the locals before the loop.
InitLocals == [last_seq_idx |-> None, list_of_tensors |-> <<>>,
               tensor_seq |-> <<>>, shape |-> None, exc |-> "none"]

\* FinalList with the trailing append made only for a non-empty accumulator.
FinalListNonEmptyOnly(st) ==
    IF st.tensor_seq # <<>>
    THEN Append(st.list_of_tensors, Stack(st.tensor_seq))
    ELSE st.list_of_tensors

\* The list the function returns once the loop is over.
FinalList(st) == Append(st.list_of_tensors, Stack(st.tensor_seq))

\* The whole call: [exc, value], value the returned list when exc = "none".
RECURSIVE RunLoop(_, _)
RunLoop(st, ls) ==
    IF st.exc # "none" THEN [exc |-> st.exc, value |-> <<>>]
    ELSE IF ls = <<>> THEN [exc |-> "none", value |-> FinalList(st)]
    ELSE RunLoop(LoopBody(st, Head(ls)), Tail(ls))

_parse_result_output(text) == RunLoop(InitLocals, SplitLines(text))

-----------------------------------------------------------------------------
(* The inputs of the decoder.                                              *)

\* The longest stream of lines drawn from DecoderLines.
MaxLines == 3

SHAPE_0 == <<"0", "\t", "|", "w", ".", "s", "h", "a", "p", "e", " ", "1", " ", "1">>
DATA_0 == <<"0", "\t", "|", "w", " ", "6", "0", ".", "0", "0", "0", "0", "0", "0">>
SHAPE_1 == <<"1", "\t", "|", "w", ".", "s", "h", "a", "p", "e", " ", "1", " ", "2">>
DATA_1A == <<"1", "\t", "|", "w", " ", "2", "2", ".", "0", "0", "0", "0", "0", "0">>
DATA_1B == <<"1", "\t", "|", "w", " ", "2", "4", ".", "0", "0", "0", "0", "0", "0">>
SHAPE_2 == <<"2", "\t", "|", "w", ".", "s", "h", "a", "p", "e", " ", "2", " ", "2", " ", "1">>
DATA_2 == <<"2", "\t", "|", "w", " ", "1", " ", "2", " ", "3", " ", "4">>
DATA_1_INF == <<"1", "\t", "|", "w", " ", "1", ".", "#", "I", "N", "F">>
DATA_1_BAD == <<"1", "\t", "|", "w", " ", "x">>
NO_BAR == <<"j", "u", "n", "k">>

\* The docstring's example of the tabular format.
DocExample == JoinLines(<<SHAPE_0, DATA_0, SHAPE_1, DATA_1A, DATA_1B>>)

DecoderLines == {SHAPE_0, DATA_0, SHAPE_1, DATA_1A, SHAPE_2, DATA_2,
                 DATA_1_INF, DATA_1_BAD, NO_BAR}

SeqsUpTo(S, n) == UNION {[1..k -> S] : k \in 0..n}

\* Every stream of at most MaxLines lines, and the docstring's example with
\* and without a final newline.
DecoderInputs ==
    {JoinLines(ls) : ls \in SeqsUpTo(DecoderLines, MaxLines)}
        \cup {DocExample, DocExample \o <<"\n">>}

-----------------------------------------------------------------------------
(* _calc_expected_shape_and_size                                           *)

\* An entry of a ShapeSpec: an integer, or np.NaN for the dimension
\* printed as *.
Dim(n) == [nan |-> FALSE, v |-> n]
NAN_DIM == [nan |-> TRUE, v |-> 0]

IsKnown(d) == ~d.nan
Values(shp) == [i \in 1..Len(shp) |-> shp[i].v]

\* sum(np.isnan(expected_shape))
NanCount(shp) == Cardinality({i \in 1..Len(shp) : shp[i].nan})

\* The first test with the bound one too high.
TooManyUnresolvedAboveTwo(shp) == NanCount(shp) > 2

\* sum(np.isnan(expected_shape)) > 1
TooManyUnresolved(shp) == NanCount(shp) > 1

\* The expected size as the sum, not the product, of the known entries.
RECURSIVE SumSeq(_)
SumSeq(s) == IF s = <<>> THEN 0 ELSE Head(s) + SumSeq(Tail(s))
expected_size_adding(shp) == SumSeq(Values(SelectSeq(shp, IsKnown)))

\* np.multiply.reduce(expected_shape[~np.isnan(expected_shape)])
expected_size(shp) == Prod(Values(SelectSeq(shp, IsKnown)))

\* The unresolved axis kept with length 1 instead of dropped.
SqueezedKeepingAxis(shp) ==
    [i \in 1..Len(shp) |-> IF shp[i].nan THEN Dim(1) ELSE shp[i]]

\* expected_shape[~np.isnan(expected_shape)]
Squeezed(shp) == SelectSeq(shp, IsKnown)

\* The unresolved entry filled with the whole element count.
FilledWithCount(shp, size) ==
    [i \in 1..Len(shp) |-> IF shp[i].nan THEN Dim(size) ELSE shp[i]]

\* expected_shape[np.isnan(expected_shape)] = data.size / expected_size
Filled(shp, size) ==
    [i \in 1..Len(shp) |->
        IF shp[i].nan THEN Dim(size \div expected_size(shp)) ELSE shp[i]]

Raised(kind) == [status |-> "called", exc |-> kind, value |-> None]
Returned(shp, size) ==
    [status |-> "called", exc |-> "none", value |-> Some(<<shp, size>>)]

\* The call for shapes[node.name] = shp and data.size = size.  The first
\* raise builds its message with % applied to the second string literal
\* alone, which has no conversion for the two arguments: a TypeError.  With
\* a known entry 0 the quotient data.size / expected_size is the float
\* infinity, and int() of it is an OverflowError.
_calc_expected_shape_and_size(shp, size) ==
    IF TooManyUnresolved(shp)
    THEN Raised("TypeError")
    ELSE IF NanCount(shp) = 1
    THEN IF size = expected_size(shp)
         THEN Returned(Squeezed(shp), expected_size(shp))
         ELSE IF size > expected_size(shp)
         THEN IF expected_size(shp) = 0
              THEN Raised("OverflowError")
              ELSE IF size % expected_size(shp) # 0
              THEN Raised("ValueError")
              ELSE Returned(Filled(shp, size), Prod(Values(Filled(shp, size))))
         ELSE Raised("ValueError")
    ELSE Returned(shp, expected_size(shp))

\* The longest ShapeSpec, the largest dimension and the largest data.size.
MaxRank == 3
MaxDim == 3
MaxCount == 9

DimValues == {NAN_DIM} \cup {Dim(n) : n \in 0..MaxDim}
ShapeSpecs == SeqsUpTo(DimValues, MaxRank)

-----------------------------------------------------------------------------
(* _parse_shapes_from_output                                               *)

VALIDATING == <<"V", "a", "l", "i", "d", "a", "t", "i", "n", "g", " ", "-", "-", ">", " ">>
EQUALS == <<" ", "=", " ">>
ARROW_BRACKET == <<">", " ", "[">>

NoMatch == [ok |-> FALSE, name |-> <<>>, shape |-> <<>>]

\* _VAR_SHAPE_REGEX.match(line), the pattern
\*   ^Validating --> (?P<name>[^ ]+) = [^>]*> \[(?P<shape>[^]]+)
\* Each of the three runs ends at the first character its class excludes,
\* which is the character the pattern wants next, so the match is unique.
_VAR_SHAPE_REGEX_match(line) ==
    IF ~StartsWith(line, VALIDATING)
    THEN NoMatch
    ELSE LET r1 == Drop(line, Len(VALIDATING))
             name == TakeUntil(r1, {" "})
             r2 == Drop(r1, Len(name))
         IN  IF name = <<>> \/ ~StartsWith(r2, EQUALS)
             THEN NoMatch
             ELSE LET r3 == Drop(r2, Len(EQUALS))
                      r4 == Drop(r3, Len(TakeUntil(r3, {">"})))
                  IN  IF ~StartsWith(r4, ARROW_BRACKET)
                      THEN NoMatch
                      ELSE LET shp == TakeUntil(Drop(r4, Len(ARROW_BRACKET)), {"]"})
                           IN  IF shp = <<>>
                               THEN NoMatch
                               ELSE [ok |-> TRUE, name |-> name, shape |-> shp]

\* The stride annotation left in place.
_SHAPE_STRIDE_REGEX_sub_nothing(s) == s

\* _SHAPE_STRIDE_REGEX.sub('', shape), the pattern \{.*?\}: every { up to
\* the next } is removed; a { with no } after it stays.
RECURSIVE _SHAPE_STRIDE_REGEX_sub(_)
_SHAPE_STRIDE_REGEX_sub(s) ==
    IF s = <<>>
    THEN <<>>
    ELSE IF Head(s) = "{" /\ IndexOf(Tail(s), "}") # 0
    THEN _SHAPE_STRIDE_REGEX_sub(Drop(Tail(s), IndexOf(Tail(s), "}")))
    ELSE <<Head(s)>> \o _SHAPE_STRIDE_REGEX_sub(Tail(s))

\* One pass of the inner loop: x.strip(), then np.NaN for * and int(x)
\* for the rest.
DimOf(x) ==
    IF Strip(x) = <<"*">>
    THEN [ok |-> TRUE, dim |-> NAN_DIM]
    ELSE [ok |-> ParseInt(Strip(x)).ok, dim |-> Dim(ParseInt(Strip(x)).v)]

\* tuple(shape_list) for the text of the shape group; ok = FALSE is the
\* ValueError of int(x).
shape_list(text) ==
    LET xs == Split(text, "x")
    IN  [ok |-> \A i \in 1..Len(xs) : DimOf(xs[i]).ok,
         dims |-> [i \in 1..Len(xs) |-> DimOf(xs[i]).dim]]

EmptyDict == [n \in {} |-> <<>>]

\* The entry kept when the name is already a key.
DictSetDefault(d, k, v) ==
    [n \in DOMAIN d \cup {k} |-> IF n \in DOMAIN d THEN d[n] ELSE v]

\* var_shape[name] = tuple(shape_list)
DictSet(d, k, v) ==
    [n \in DOMAIN d \cup {k} |-> IF n = k THEN v ELSE d[n]]

\* The loop over the lines, from the dictionary built so far.
RECURSIVE ParseShapeLines(_, _)
ParseShapeLines(d, ls) ==
    IF ls = <<>>
    THEN [status |-> "called", exc |-> "none", dict |-> d]
    ELSE LET mo == _VAR_SHAPE_REGEX_match(Head(ls))
             sl == shape_list(_SHAPE_STRIDE_REGEX_sub(mo.shape))
         IN  IF ~mo.ok
             THEN ParseShapeLines(d, Tail(ls))
             ELSE IF ~sl.ok
             THEN [status |-> "called", exc |-> "ValueError", dict |-> EmptyDict]
             ELSE ParseShapeLines(DictSet(d, mo.name, sl.dims), Tail(ls))

_parse_shapes_from_output(text) == ParseShapeLines(EmptyDict, Split(text, "\n"))

\* The longest log drawn from LogLines.
MaxLogLines == 3

OUT == <<"o", "u", "t">>
LOG_OUT_2_3 ==
    VALIDATING \o OUT \o EQUALS \o <<"F", "o", "o", "(", "x", ")", " ", "-">>
        \o ARROW_BRACKET
        \o <<"2", " ", "x", " ", "3", " ", "{", "1", ",", "2", "}", "]">>
LOG_OUT_4_STAR ==
    VALIDATING \o OUT \o EQUALS \o <<"B", "a", "r", "(", "y", ")", " ", "-">>
        \o ARROW_BRACKET \o <<"4", " ", "x", " ", "*", "]">>
LOG_Z ==
    VALIDATING \o <<"z">> \o EQUALS
        \o <<"P", "l", "u", "s", " ", "(", "a", ",", " ", "b", ")", " ", ":", " ",
             "[", "2", " ", "x", " ", "*", "]", ",", " ", "[", "2", "]", " ", "-">>
        \o ARROW_BRACKET \o <<"2", " ", "x", " ", "1", " ", "x", " ", "*", "]">>
LOG_NETWORK ==
    <<"V", "a", "l", "i", "d", "a", "t", "i", "n", "g", " ",
      "n", "e", "t", "w", "o", "r", "k", ".">>
LOG_NO_BRACKET ==
    VALIDATING \o <<"q">> \o EQUALS
        \o <<"T", "i", "m", "e", "s", "(", "a", ")", " ", "-", ">", " ", "2">>
LOG_BAD_DIM ==
    VALIDATING \o <<"b", "a", "d">> \o EQUALS \o <<"S", " ", "-">>
        \o ARROW_BRACKET \o <<"2", " ", "x", " ", "y", "]">>

LogLines == {LOG_OUT_2_3, LOG_OUT_4_STAR, LOG_Z, LOG_NETWORK, LOG_NO_BRACKET,
             LOG_BAD_DIM}

LogInputs == {JoinLines(ls) : ls \in SeqsUpTo(LogLines, MaxLogLines)}

-----------------------------------------------------------------------------
(* The state of each component while another one is exercised.             *)

IdleSanitizer ==
    /\ san_data = <<>>
    /\ san_out = [status |-> "idle", ok |-> TRUE, arr |-> Array(<<0>>, <<>>),
                  data |-> <<>>]

IdleTest ==
    /\ test_output = <<>>
    /\ test_result = [status |-> "idle", exc |-> "none", dict |-> EmptyDict]

NoFiles == [f \in {} |-> <<>>]

IdleCall ==
    /\ proc_exit = 0
    /\ proc_output = <<>>
    /\ proc_decodes = TRUE
    /\ files = NoFiles
    /\ call_out = [status |-> "idle", exc |-> "none", value |-> None]

IdleRegistry ==
    /\ _CONTEXT = EmptyDict
    /\ instances = <<>>
    /\ dirs = {}
    /\ reg_last = [op |-> "none"]

\* eval not called: no stage reached, no exception, no tag noted, no data.
NoEval == [status |-> "idle", stage |-> "none", exc |-> "none",
           orig |-> None, data |-> None]

IdleEval ==
    /\ node_tag = None
    /\ eval_out = NoEval

IdleDeferred ==
    /\ config = <<>>
    /\ actions = <<>>
    /\ directory = None
    /\ exported = None
    /\ succeeded = <<>>
    /\ def_last = [op |-> "none"]

IdleLater ==
    /\ IdleSanitizer
    /\ IdleTest
    /\ IdleCall
    /\ IdleRegistry
    /\ IdleEval
    /\ IdleDeferred

-----------------------------------------------------------------------------
(* The decoder as a process: one step per pass of the loop, then the       *)
(* return.                                                                 *)

IdleResolver ==
    /\ node_shape = <<>>
    /\ data_size = 0
    /\ resolved = [status |-> "idle", exc |-> "none", value |-> None]

IdleShapes ==
    /\ log_output = <<>>
    /\ var_shape = [status |-> "idle", exc |-> "none", dict |-> EmptyDict]

InitDecoder ==
    /\ output \in DecoderInputs
    /\ lines = SplitLines(output)
    /\ last_seq_idx = InitLocals.last_seq_idx
    /\ list_of_tensors = InitLocals.list_of_tensors
    /\ tensor_seq = InitLocals.tensor_seq
    /\ shape = InitLocals.shape
    /\ exc = InitLocals.exc
    /\ pc = "loop"
    /\ result = None

\* for line in output.splitlines(): one pass of the body, which either
\* goes on to the next line or raises.
DecodeLine ==
    /\ pc = "loop"
    /\ lines # <<>>
    /\ LET st == LoopBody(Locals, Head(lines))
       IN  /\ last_seq_idx' = st.last_seq_idx
           /\ list_of_tensors' = st.list_of_tensors
           /\ tensor_seq' = st.tensor_seq
           /\ shape' = st.shape
           /\ exc' = st.exc
           /\ pc' = IF st.exc = "none" THEN "loop" ELSE "raised"
    /\ lines' = Tail(lines)
    /\ UNCHANGED <<output, result, resolverVars, shapesVars, laterVars>>

\* list_of_tensors.append(np.asarray(tensor_seq)); return list_of_tensors
Return ==
    /\ pc = "loop"
    /\ lines = <<>>
    /\ list_of_tensors' = FinalList(Locals)
    /\ result' = Some(list_of_tensors')
    /\ pc' = "returned"
    /\ UNCHANGED <<output, lines, last_seq_idx, tensor_seq, shape, exc,
                   resolverVars, shapesVars, laterVars>>

Init == InitDecoder /\ IdleResolver /\ IdleShapes /\ IdleLater

Next == DecodeLine \/ Return

Spec == Init /\ [][Next]_vars

-----------------------------------------------------------------------------
(* Properties of the decoder.                                              *)

\* The lines the loop has taken so far, and the last of them.
Consumed == Len(SplitLines(output)) - Len(lines)
LastLine == SplitLines(output)[Consumed]

\* What an entry of the returned list holds: np.asarray stacks the tensors
\* of a sequence along a new first axis.
NumTensors(entry) == entry.shape[1]
TensorShape(entry) == Tail(entry.shape)

\* C1: in _parse_result_output, a line whose sequence index differs from the
\* previous index (the first line has no previous index) and whose tag is
\* not w.shape makes the call raise the format ValueError: no list is
\* returned, and neither the list nor the accumulator changes.
C1_FormatError ==
    [][(/\ pc = "loop"
        /\ lines # <<>>
        /\ HasPayload(Head(lines))
        /\ Some(SeqIdx(Head(lines))) # last_seq_idx
        /\ Info(Head(lines)) # W_SHAPE)
       => (/\ pc' = "raised"
           /\ exc' = "ValueError"
           /\ result' = None
           /\ list_of_tensors' = list_of_tensors
           /\ tensor_seq' = tensor_seq)]_vars

\* A data line of a new sequence index arrived after an earlier sequence,
\* and the call raised.
C1_Witness ==
    /\ pc = "raised"
    /\ exc = "ValueError"
    /\ result = None
    /\ Consumed >= 2
    /\ HasPayload(LastLine)
    /\ last_seq_idx # None
    /\ Some(SeqIdx(LastLine)) # last_seq_idx
    /\ Info(LastLine) # W_SHAPE

\* C2: whenever _parse_result_output returns, the returned list is not
\* empty and its last entry is the array of the pending accumulator, empty
\* or not; for a text of zero lines the list is exactly one empty entry.
C2_TrailingFlush ==
    pc = "returned" =>
        /\ result # None
        /\ Len(result[1]) >= 1
        /\ LET last == result[1][Len(result[1])]
           IN  /\ NumTensors(last) = Len(tensor_seq)
               /\ last.elems = Concat([i \in 1..Len(tensor_seq) |-> tensor_seq[i].elems])
        /\ (SplitLines(output) = <<>> =>
                /\ Len(result[1]) = 1
                /\ result[1][1].elems = <<>>
                /\ NumTensors(result[1][1]) = 0)

\* The call returned with an empty accumulator after having read lines.
C2_Witness ==
    /\ pc = "returned"
    /\ tensor_seq = <<>>
    /\ last_seq_idx # None
    /\ result[1][Len(result[1])].elems = <<>>

F60 == Num(FALSE, 60, <<>>)
F22 == Num(FALSE, 22, <<>>)
F24 == Num(FALSE, 24, <<>>)

-----------------------------------------------------------------------------
(* The shape resolver: a call on every ShapeSpec and element count.        *)

IdleDecoder ==
    /\ output = <<>>
    /\ lines = <<>>
    /\ last_seq_idx = InitLocals.last_seq_idx
    /\ list_of_tensors = InitLocals.list_of_tensors
    /\ tensor_seq = InitLocals.tensor_seq
    /\ shape = InitLocals.shape
    /\ exc = InitLocals.exc
    /\ pc = "idle"
    /\ result = None

InitResolver ==
    /\ node_shape \in ShapeSpecs
    /\ data_size \in 0..MaxCount
    /\ resolved = [status |-> "idle", exc |-> "none", value |-> None]

Resolve ==
    /\ resolved.status = "idle"
    /\ resolved' = _calc_expected_shape_and_size(node_shape, data_size)
    /\ UNCHANGED <<node_shape, data_size, decoderVars, shapesVars, laterVars>>

NextResolver == Resolve

ResolverInit == InitResolver /\ IdleDecoder /\ IdleShapes /\ IdleLater

SpecResolver == ResolverInit /\ [][NextResolver]_vars

\* The product of the known entries, and the place of the unresolved one.
KnownProduct == Prod(Values(SelectSeq(node_shape, IsKnown)))
NanAt == CHOOSE i \in 1..Len(node_shape) : node_shape[i].nan
Called == resolved.status = "called"

\* C4: _calc_expected_shape_and_size raises, and returns no shape and no
\* size, for every ShapeSpec with more than one NaN entry, whatever
\* data.size is.
C4_TwoUnresolvedFails ==
    (Called /\ NanCount(node_shape) > 1) =>
        (resolved.exc # "none" /\ resolved.value = None)

\* A ShapeSpec with two NaN entries was rejected although data.size is the
\* product of its known entries.
C4_Witness ==
    /\ Called
    /\ NanCount(node_shape) = 2
    /\ Len(node_shape) = 3
    /\ data_size = KnownProduct
    /\ resolved.exc # "none"

\* C5: for a ShapeSpec without NaN entry the call returns the shape as it
\* is and the product of all its entries, whatever data.size is.
C5_ResolvedUnchanged ==
    (Called /\ NanCount(node_shape) = 0) =>
        /\ resolved.exc = "none"
        /\ resolved.value = Some(<<node_shape, Prod(Values(node_shape))>>)

\* A fully known shape of two axes met a data.size different from its
\* product and came back unchanged.
C5_Witness ==
    /\ Called
    /\ NanCount(node_shape) = 0
    /\ Len(node_shape) = 2
    /\ data_size # Prod(Values(node_shape))
    /\ resolved.value = Some(<<node_shape, Prod(Values(node_shape))>>)

\* C6: for a ShapeSpec with exactly one NaN entry and data.size equal to
\* the product of the known entries, the call returns the known entries in
\* their order, without the unresolved axis, and data.size as the size.
C6_Squeezed ==
    (Called /\ NanCount(node_shape) = 1 /\ data_size = KnownProduct) =>
        /\ resolved.exc = "none"
        /\ resolved.value =
               Some(<<SubSeq(node_shape, 1, NanAt - 1)
                          \o SubSeq(node_shape, NanAt + 1, Len(node_shape)),
                      data_size>>)

\* (2, *) with 2 elements gave (2,).
C6_Witness ==
    /\ Called
    /\ node_shape = <<Dim(2), NAN_DIM>>
    /\ data_size = 2
    /\ resolved.value = Some(<<(<<Dim(2)>>), 2>>)

\* data.size is p times some positive integer.
IsMultipleOf(p) == \E q \in 1..data_size : data_size = q * p

\* C7: for a ShapeSpec with exactly one NaN entry and data.size strictly
\* greater than the product of the known entries and a multiple of it, the
\* call returns the shape with the NaN entry replaced, in place, by the
\* quotient, and data.size as the size.
C7_Filled ==
    (/\ Called
     /\ NanCount(node_shape) = 1
     /\ data_size > KnownProduct
     /\ IsMultipleOf(KnownProduct)) =>
        /\ resolved.exc = "none"
        /\ resolved.value =
               Some(<<[node_shape EXCEPT ![NanAt] = Dim(data_size \div KnownProduct)],
                      data_size>>)

\* (2, *) with 6 elements gave (2, 3).
C7_Witness ==
    /\ Called
    /\ node_shape = <<Dim(2), NAN_DIM>>
    /\ data_size = 6
    /\ resolved.value = Some(<<(<<Dim(2), Dim(3)>>), 6>>)

\* C8 as stated: for a ShapeSpec with exactly one NaN entry the call raises
\* the shape ValueError when data.size is less than the product of the
\* known entries or no integer multiple of it, and returns otherwise.
C8_AsStated ==
    (Called /\ NanCount(node_shape) = 1) =>
        IF data_size < KnownProduct
           \/ ~(\E q \in 0..data_size : data_size = q * KnownProduct)
        THEN resolved.exc = "ValueError" /\ resolved.value = None
        ELSE resolved.exc = "none" /\ resolved.value # None

\* C8, where the known entries have a product other than 0: the call
\* raises the ValueError in exactly the stated cases.
C8_NonZeroProduct ==
    (Called /\ NanCount(node_shape) = 1 /\ KnownProduct # 0) =>
        IF data_size < KnownProduct
           \/ ~(\E q \in 0..data_size : data_size = q * KnownProduct)
        THEN resolved.exc = "ValueError" /\ resolved.value = None
        ELSE resolved.exc = "none" /\ resolved.value # None

\* (2, *) with 5 elements was rejected.
C8_Witness ==
    /\ Called
    /\ node_shape = <<Dim(2), NAN_DIM>>
    /\ data_size = 5
    /\ resolved.exc = "ValueError"

-----------------------------------------------------------------------------
(* The shape text parser: a call on every log.                             *)

InitShapes ==
    /\ log_output \in LogInputs
    /\ var_shape = [status |-> "idle", exc |-> "none", dict |-> EmptyDict]

ParseShapes ==
    /\ var_shape.status = "idle"
    /\ var_shape' = _parse_shapes_from_output(log_output)
    /\ UNCHANGED <<log_output, decoderVars, resolverVars, laterVars>>

NextShapes == ParseShapes

ShapesInit == InitShapes /\ IdleDecoder /\ IdleResolver /\ IdleLater

SpecShapes == ShapesInit /\ [][NextShapes]_vars

LogLinesOf == Split(log_output, "\n")
Parsed == var_shape.status = "called"

\* The lines that match the pattern, and the last of them for a name.
Matching == {i \in 1..Len(LogLinesOf) : _VAR_SHAPE_REGEX_match(LogLinesOf[i]).ok}
NameAt(i) == _VAR_SHAPE_REGEX_match(LogLinesOf[i]).name
IsLastFor(i) == \A j \in Matching : NameAt(j) = NameAt(i) => j <= i

\* The dimension tokens of a matching line: the text of its shape group
\* without the brace-enclosed parts, cut at each x and stripped.
TokensAt(i) ==
    LET xs == Split(_SHAPE_STRIDE_REGEX_sub(_VAR_SHAPE_REGEX_match(LogLinesOf[i]).shape), "x")
    IN  [k \in 1..Len(xs) |-> Strip(xs[k])]
WellFormedAt(i) ==
    \A k \in 1..Len(TokensAt(i)) :
        TokensAt(i)[k] = <<"*">> \/ ParseInt(TokensAt(i)[k]).ok

\* The ShapeSpec each line of LogLines declares, read off its text.
DeclaredBy(line) ==
    IF line = LOG_OUT_2_3 THEN <<Dim(2), Dim(3)>>
    ELSE IF line = LOG_OUT_4_STAR THEN <<Dim(4), NAN_DIM>>
    ELSE IF line = LOG_Z THEN <<Dim(2), Dim(1), NAN_DIM>>
    ELSE <<>>

\* C9 as stated: for every log the call returns a mapping whose keys are
\* the names of the matching lines and whose value for a name is the
\* ShapeSpec of the last matching line with that name.
C9_AsStated ==
    Parsed =>
        /\ var_shape.exc = "none"
        /\ DOMAIN var_shape.dict = {NameAt(i) : i \in Matching}
        /\ \A i \in Matching :
               IsLastFor(i) =>
                   var_shape.dict[NameAt(i)]
                       = shape_list(_SHAPE_STRIDE_REGEX_sub(_VAR_SHAPE_REGEX_match(LogLinesOf[i]).shape)).dims

\* C9, amended: the call returns exactly when every dimension token of
\* every matching line is an integer literal or *; when it returns, the keys
\* of the mapping are the names of the matching lines, lines that do not
\* match add nothing, and the value for a name is the ShapeSpec of the last
\* matching line with that name.
C9_KeysAndLastWins ==
    Parsed =>
        /\ var_shape.exc = "none" <=> \A i \in Matching : WellFormedAt(i)
        /\ var_shape.exc = "none" =>
               /\ DOMAIN var_shape.dict = {NameAt(i) : i \in Matching}
               /\ \A i \in Matching :
                      IsLastFor(i) =>
                          var_shape.dict[NameAt(i)] = DeclaredBy(LogLinesOf[i])

\* Two matching lines named the same node, a line that does not match stood
\* between them, and the mapping holds the ShapeSpec of the second.
C9_Witness ==
    /\ Parsed
    /\ var_shape.exc = "none"
    /\ LogLinesOf = <<LOG_OUT_4_STAR, LOG_NETWORK, LOG_OUT_2_3>>
    /\ DOMAIN var_shape.dict = {OUT}
    /\ var_shape.dict[OUT] = <<Dim(2), Dim(3)>>

\* C10: for every matching line whose mapping entry is its own, the entry
\* has one dimension per token left after the brace-enclosed annotations are
\* removed and the text is cut at x, in the tokens' order: NaN for *, the
\* integer value for the rest; the line
\*   Validating --> out = Foo(x) -> [2 x 3 {1,2}]
\* alone gives out the ShapeSpec (2, 3).
C10_DimensionTokens ==
    Parsed =>
        /\ (\A i \in Matching : WellFormedAt(i)) => var_shape.exc = "none"
        /\ var_shape.exc = "none" =>
               \A i \in Matching :
                   IsLastFor(i) =>
                       LET dims == var_shape.dict[NameAt(i)]
                       IN  /\ Len(dims) = Len(TokensAt(i))
                           /\ \A k \in 1..Len(dims) :
                                  IF TokensAt(i)[k] = <<"*">>
                                  THEN dims[k] = NAN_DIM
                                  ELSE dims[k] = Dim(ParseInt(TokensAt(i)[k]).v)
        /\ log_output = LOG_OUT_2_3 =>
               /\ var_shape.exc = "none"
               /\ DOMAIN var_shape.dict = {OUT}
               /\ var_shape.dict[OUT] = <<Dim(2), Dim(3)>>

\* The line with the stride annotation was parsed.
C10_Witness ==
    /\ Parsed
    /\ log_output = LOG_OUT_2_3
    /\ var_shape.dict[OUT] = <<Dim(2), Dim(3)>>

-----------------------------------------------------------------------------
(* _sanitized_asarray as a process: the caller holds a list of tokens and  *)
(* calls the function once.                                                *)

MaxTokens == 3

TOK_1_0 == <<"1", ".", "0">>
TOK_NEG_2_5 == <<"-", "2", ".", "5">>
TOK_NAN == <<"n", "a", "n">>
TOK_NEG_INF == <<"-", "i", "n", "f">>
TOK_INF_TAIL == <<"1", ".", "#", "I", "N", "F", "0", "0">>
TOK_X == <<"x">>
TOK_HASH_INF == <<"#", "I", "N", "F">>

Tokens == {TOK_1_0, TOK_NEG_2_5, TOK_NAN, TOK_NEG_INF, IND, NEG_IND, INF,
           NEG_INF, TOK_INF_TAIL, TOK_X, TOK_HASH_INF}

\* The list of the documented example.
SanitizeExample == <<TOK_1_0, INF, NEG_IND, TOK_NAN>>

TokenLists == SeqsUpTo(Tokens, MaxTokens) \cup {SanitizeExample}

InitSanitizer ==
    /\ san_data \in TokenLists
    /\ san_out = [status |-> "idle", ok |-> TRUE, arr |-> Array(<<0>>, <<>>),
                  data |-> <<>>]

Sanitize ==
    /\ san_out.status = "idle"
    /\ LET r == _sanitized_asarray(san_data)
       IN  san_out' = [status |-> "done", ok |-> r.ok, arr |-> r.arr,
                       data |-> r.data]
    /\ UNCHANGED <<san_data, decoderVars, resolverVars, shapesVars, testVars,
                   callVars, registryVars, evalVars, deferredVars>>

NextSanitizer == Sanitize

SanitizerInit ==
    /\ InitSanitizer
    /\ IdleDecoder /\ IdleResolver /\ IdleShapes
    /\ IdleTest /\ IdleCall /\ IdleRegistry /\ IdleEval /\ IdleDeferred

SpecSanitizer == SanitizerInit /\ [][NextSanitizer]_vars

Sanitized == san_out.status = "done"

\* The caller's list as it was handed over: every entry a str token.
AsPassed == [i \in 1..Len(san_data) |-> StrItem(san_data[i])]

\* C11: whatever path the call takes, the caller's token list holds the
\* same tokens after the call as before it.
C11_AsStated == Sanitized => san_out.data = AsPassed

\* On the fast path (every token converts on its own) the list is left alone.
C11_FastPathUnchanged ==
    (Sanitized /\ \A i \in 1..Len(san_data) : ParseFloat(san_data[i]).ok)
        => san_out.data = AsPassed

\* What each token of the input set is, read off the claim: a numeric
\* literal or native spelling with its value, a prefixed token with its
\* sentinel, or none of these.
Expected(tok) ==
    CASE tok = TOK_1_0 -> Some(Num(FALSE, 1, <<>>))
      [] tok = TOK_NEG_2_5 -> Some(Num(TRUE, 2, <<"5">>))
      [] tok = TOK_NAN -> Some(NaN(FALSE))
      [] tok = TOK_NEG_INF -> Some(Inf(TRUE))
      [] tok = IND -> Some(NaN(FALSE))
      [] tok = NEG_IND -> Some(NaN(TRUE))
      [] tok = INF -> Some(Inf(FALSE))
      [] tok = NEG_INF -> Some(Inf(TRUE))
      [] tok = TOK_INF_TAIL -> Some(Inf(FALSE))
      [] tok = TOK_X -> None
      [] tok = TOK_HASH_INF -> None

\* C12: the call fails exactly when some token is neither numeric, nor a
\* native nan/inf, nor prefixed by one of the four markers; otherwise the
\* array has the list's length and holds, position by position, the
\* sentinel of a prefixed token and the value of any other token.
C12_Sanitized ==
    Sanitized =>
        /\ ~san_out.ok <=> \E i \in 1..Len(san_data) : Expected(san_data[i]) = None
        /\ san_out.ok =>
            /\ san_out.arr.shape = <<Len(san_data)>>
            /\ Len(san_out.arr.elems) = Len(san_data)
            /\ \A i \in 1..Len(san_data) :
                   san_out.arr.elems[i] = Expected(san_data[i])[1]
        /\ san_data = SanitizeExample =>
            /\ san_out.ok
            /\ san_out.arr.elems =
                   <<Num(FALSE, 1, <<>>), Inf(FALSE), NaN(TRUE), NaN(FALSE)>>

C12_Witness ==
    /\ Sanitized
    /\ san_out.ok
    /\ san_data = <<NEG_INF, TOK_NEG_2_5, TOK_INF_TAIL>>
    /\ san_out.arr.elems = <<Inf(TRUE), Num(TRUE, 2, <<"5">>), Inf(FALSE)>>

-----------------------------------------------------------------------------
(* _parse_test_result                                                      *)

\* The position of the first occurrence of pat in s, 0 when there is none.
Find(s, pat) ==
    LET hits == {i \in 1..(Len(s) - Len(pat) + 1) :
                     SubSeq(s, i, i + Len(pat) - 1) = pat}
    IN  IF hits = {} THEN 0 ELSE CHOOSE i \in hits : \A j \in hits : i <= j

FINAL_RESULTS ==
    <<"F", "i", "n", "a", "l", " ", "R", "e", "s", "u", "l", "t", "s", ":",
      " ", "M", "i", "n", "i", "b", "a", "t", "c", "h", "[">>

BRACKET_COLON == <<"]", ":", " ">>

\* _FINAL_RESULTS_REGEX.match(line): None, or the group 'results'.  The
\* pattern is anchored at the start of the line, `.*?` ends at the first
\* "]: " and `.*` takes the rest of the line.
_FINAL_RESULTS_REGEX_match(line) ==
    IF ~StartsWith(line, FINAL_RESULTS) THEN None
    ELSE LET rest == Drop(line, Len(FINAL_RESULTS))
             i == Find(rest, BRACKET_COLON)
         IN  IF i = 0 THEN None
             ELSE Some(Drop(rest, i + Len(BRACKET_COLON) - 1))

\* The loop over output.splitlines(): the group of the last matching line.
RECURSIVE LastFinalResults(_, _)
LastFinalResults(final_results, ls) ==
    IF ls = <<>> THEN final_results
    ELSE LET fo == _FINAL_RESULTS_REGEX_match(Head(ls))
         IN  LastFinalResults(IF fo # None THEN fo ELSE final_results, Tail(ls))

\* A value that keeps what follows the last `*` instead.
StarValueLast(v) ==
    IF IndexOf(v, "*") # 0
    THEN Strip(Split(v, "*")[Len(Split(v, "*"))])
    ELSE v

\* if '*' in v: v = v.split('*')[0].strip()
StarValue(v) ==
    IF IndexOf(v, "*") # 0
    THEN Strip(Split(v, "*")[1])
    ELSE v

\* The loop over parts, from the dictionary built so far.  float() ignores
\* blanks around its argument.
RECURSIVE ParseParts(_, _)
ParseParts(d, parts) ==
    IF parts = <<>>
    THEN [status |-> "called", exc |-> "none", dict |-> d]
    ELSE LET kv == Split(Head(parts), "=")
         IN  IF Len(kv) # 2
             THEN [status |-> "called", exc |-> "ValueError", dict |-> EmptyDict]
             ELSE LET f == ParseFloat(Strip(StarValue(kv[2])))
                  IN  IF ~f.ok
                      THEN [status |-> "called", exc |-> "ValueError",
                            dict |-> EmptyDict]
                      ELSE ParseParts(DictSet(d, Strip(kv[1]), f.v),
                                      Tail(parts))

\* [p.strip() for p in final_results.split(';')]
StrippedParts(final_results) ==
    LET ps == Split(final_results, ";")
    IN  [i \in 1..Len(ps) |-> Strip(ps[i])]

\* _parse_test_result(output): None.split raises AttributeError when no
\* line matched.
_parse_test_result(text) ==
    LET final_results == LastFinalResults(None, SplitLines(text))
    IN  IF final_results = None
        THEN [status |-> "called", exc |-> "AttributeError", dict |-> EmptyDict]
        ELSE ParseParts(EmptyDict, StrippedParts(final_results[1]))

-----------------------------------------------------------------------------
(* _parse_test_result as a process: the log of a test run is parsed once.  *)

MaxPairs == 3

MINIBATCH_1_1 ==
    <<"F", "i", "n", "a", "l", " ", "R", "e", "s", "u", "l", "t", "s", ":",
      " ", "M", "i", "n", "i", "b", "a", "t", "c", "h", "[", "1", "-", "1",
      "]", ":", " ">>

KEY_SAMPLES ==
    <<"S", "a", "m", "p", "l", "e", "s", "S", "e", "e", "n">>

KEY_PERPLEXITY ==
    <<"P", "e", "r", "p", "l", "e", "x", "i", "t", "y">>

KEY_CE ==
    <<"c", "e">>

TEXT_SAMPLES ==
    <<"S", "a", "m", "p", "l", "e", "s", "S", "e", "e", "n", " ", "=", " ",
      "1", "0", "0">>

TEXT_PERPLEXITY ==
    <<" ", "P", "e", "r", "p", "l", "e", "x", "i", "t", "y", " ", "=", " ",
      "2", ".", "3", "4">>

TEXT_CE ==
    <<" ", "c", "e", " ", "=", " ", "0", ".", "1", "2", " ", "*", " ", "1",
      "0", "0">>

TEXT_CE_TIGHT ==
    <<"c", "e", "=", "0", ".", "5", "*", "7", "*", "2">>

LOG_NOISE ==
    <<"M", "i", "n", "i", "b", "a", "t", "c", "h", "[", "1", "-", "1", "]",
      ":", " ", "x", " ", "=", " ", "1">>

LOG_OLDER ==
    <<"F", "i", "n", "a", "l", " ", "R", "e", "s", "u", "l", "t", "s", ":",
      " ", "M", "i", "n", "i", "b", "a", "t", "c", "h", "[", "0", "-", "0",
      "]", ":", " ", "o", "l", "d", " ", "=", " ", "9">>

LOG_NO_EQUALS ==
    <<"F", "i", "n", "a", "l", " ", "R", "e", "s", "u", "l", "t", "s", ":",
      " ", "M", "i", "n", "i", "b", "a", "t", "c", "h", "[", "1", "-", "1",
      "]", ":", " ", "c", "e">>

LOG_TWO_EQUALS ==
    <<"F", "i", "n", "a", "l", " ", "R", "e", "s", "u", "l", "t", "s", ":",
      " ", "M", "i", "n", "i", "b", "a", "t", "c", "h", "[", "1", "-", "1",
      "]", ":", " ", "c", "e", " ", "=", " ", "1", " ", "=", " ", "2">>

LOG_NOT_A_NUMBER ==
    <<"F", "i", "n", "a", "l", " ", "R", "e", "s", "u", "l", "t", "s", ":",
      " ", "M", "i", "n", "i", "b", "a", "t", "c", "h", "[", "1", "-", "1",
      "]", ":", " ", "c", "e", " ", "=", " ", "x">>

LOG_TRAILING_SEMICOLON ==
    <<"F", "i", "n", "a", "l", " ", "R", "e", "s", "u", "l", "t", "s", ":",
      " ", "M", "i", "n", "i", "b", "a", "t", "c", "h", "[", "1", "-", "1",
      "]", ":", " ", "c", "e", " ", "=", " ", "1", ";">>

LOG_NO_CLOSING ==
    <<"F", "i", "n", "a", "l", " ", "R", "e", "s", "u", "l", "t", "s", ":",
      " ", "M", "i", "n", "i", "b", "a", "t", "c", "h", "[", "1", "-", "1",
      "]", " ", "c", "e", " ", "=", " ", "1">>

\* A `key = value` pair as printed, with the key and the number it carries.
Pair(text, key, val) == [text |-> text, key |-> key, val |-> val]

Pairs ==
    {Pair(TEXT_SAMPLES, KEY_SAMPLES, Num(FALSE, 100, <<>>)),
     Pair(TEXT_PERPLEXITY, KEY_PERPLEXITY, Num(FALSE, 2, <<"3", "4">>)),
     Pair(TEXT_CE, KEY_CE, Num(FALSE, 0, <<"1", "2">>)),
     Pair(TEXT_CE_TIGHT, KEY_CE, Num(FALSE, 0, <<"5">>))}

PairSeqs == SeqsUpTo(Pairs, MaxPairs) \ {<<>>}

\* ";".join of the pairs' texts
RECURSIVE JoinPairs(_)
JoinPairs(ps) ==
    IF Len(ps) = 1 THEN ps[1].text
    ELSE ps[1].text \o <<";">> \o JoinPairs(Tail(ps))

ResultsLine(ps) == MINIBATCH_1_1 \o JoinPairs(ps)

\* The logs that carry the final-results line of ps as their last match.
Renderings(ps) ==
    {ResultsLine(ps),
     LOG_NOISE \o <<"\n">> \o ResultsLine(ps),
     ResultsLine(ps) \o <<"\n">> \o LOG_NOISE \o <<"\n">>,
     LOG_OLDER \o <<"\n">> \o ResultsLine(ps)}

Rendered ==
    UNION {{[ps |-> ps, text |-> t] : t \in Renderings(ps)} : ps \in PairSeqs}

\* Logs without a usable final-results line.
OtherLogs ==
    {<<>>, LOG_NOISE, LOG_NO_EQUALS, LOG_TWO_EQUALS, LOG_NOT_A_NUMBER,
     LOG_TRAILING_SEMICOLON, LOG_NO_CLOSING, MINIBATCH_1_1}

TestOutputs == {r.text : r \in Rendered} \cup OtherLogs

InitTest ==
    /\ test_output \in TestOutputs
    /\ test_result = [status |-> "idle", exc |-> "none", dict |-> EmptyDict]

ParseTestResult ==
    /\ test_result.status = "idle"
    /\ test_result' = _parse_test_result(test_output)
    /\ UNCHANGED <<test_output, decoderVars, resolverVars, shapesVars,
                   sanitizerVars, callVars, registryVars, evalVars,
                   deferredVars>>

NextTest == ParseTestResult

TestInit ==
    /\ InitTest
    /\ IdleDecoder /\ IdleResolver /\ IdleShapes
    /\ IdleSanitizer /\ IdleCall /\ IdleRegistry /\ IdleEval /\ IdleDeferred

SpecTest == TestInit /\ [][NextTest]_vars

TestParsed == test_result.status = "called"

\* The last pair of ps that carries the key k.
LastWith(ps, k) ==
    CHOOSE i \in 1..Len(ps) :
        /\ ps[i].key = k
        /\ \A j \in (i + 1)..Len(ps) : ps[j].key # k

DistinctKeys(ps) ==
    \A i, j \in 1..Len(ps) : ps[i].key = ps[j].key => i = j

-----------------------------------------------------------------------------
(* _call_cntk: the configuration is saved, the external tool is run, its   *)
(* output is logged and returned.  Files are named by their path.          *)

MaxExit == 2

COMMAND_EQ ==
    <<"c", "o", "m", "m", "a", "n", "d", "=">>

ACTION_TRAIN ==
    <<"T", "r", "a", "i", "n">>

ACTION_TEST ==
    <<"T", "e", "s", "t">>

CONFIG_CONTENT ==
    <<"d", "e", "v", "i", "c", "e", "I", "d", "=", "-", "1", "\n">>

ActionNames == {ACTION_TRAIN, ACTION_TEST}

CONFIG_FILE == "directory/config_file_name"
CNTK_LOG == "directory/cntk.log"
ERROR_TXT == "error.txt"

\* open(name, 'w') followed by the writes: the file holds content.
WriteFile(fs, name, content) ==
    [f \in DOMAIN fs \cup {name} |-> IF f = name THEN content ELSE fs[f]]

\* _save_file(config_file_name, config_content, action_name)
_save_file(fs, config_content, action_name) ==
    WriteFile(fs, CONFIG_FILE, config_content \o COMMAND_EQ \o action_name)

\* An empty output that is let through.
NoOutputNever(text) == FALSE

\* not output
NoOutput(text) == text = <<>>

\* _call_cntk for a process that ends with exit status exit_status after
\* printing bytes; decodes tells whether bytes.decode('utf-8') succeeds,
\* and then text is what it returns.  The outcome carries the files as
\* the call leaves them.
_call_cntk(fs, config_content, action_name, exit_status, text, decodes) ==
    LET saved == _save_file(fs, config_content, action_name)
    IN  IF exit_status # 0
        THEN IF decodes
             THEN [exc |-> "CalledProcessError", value |-> None,
                   files |-> WriteFile(saved, ERROR_TXT, text)]
             ELSE [exc |-> "UnicodeDecodeError", value |-> None,
                   files |-> WriteFile(saved, ERROR_TXT, <<>>)]
        ELSE IF ~decodes
        THEN [exc |-> "UnicodeDecodeError", value |-> None, files |-> saved]
        ELSE IF NoOutput(text)
        THEN [exc |-> "ValueError", value |-> None,
              files |-> WriteFile(saved, CNTK_LOG, text)]
        ELSE [exc |-> "none", value |-> Some(text),
              files |-> WriteFile(saved, CNTK_LOG, text)]

InitCall ==
    /\ proc_exit \in 0..MaxExit
    /\ proc_output \in LogInputs
    /\ proc_decodes \in BOOLEAN
    /\ proc_output = <<>> => proc_decodes
    /\ files = NoFiles
    /\ call_out = [status |-> "idle", exc |-> "none", value |-> None]

CallCntk ==
    /\ call_out.status = "idle"
    /\ \E action_name \in ActionNames :
           LET r == _call_cntk(files, CONFIG_CONTENT, action_name, proc_exit,
                               proc_output, proc_decodes)
           IN  /\ call_out' = [status |-> "called", exc |-> r.exc,
                               value |-> r.value]
               /\ files' = r.files
    /\ UNCHANGED <<proc_exit, proc_output, proc_decodes, decoderVars,
                   resolverVars, shapesVars, sanitizerVars, testVars,
                   registryVars, evalVars, deferredVars>>

NextCall == CallCntk

CallInit ==
    /\ InitCall
    /\ IdleDecoder /\ IdleResolver /\ IdleShapes
    /\ IdleSanitizer /\ IdleTest /\ IdleRegistry /\ IdleEval /\ IdleDeferred

SpecCall == CallInit /\ [][NextCall]_vars

CallEnded == call_out.status = "called"

-----------------------------------------------------------------------------
(* The registry _CONTEXT.  An instance is known by its position in         *)
(* instances; _CONTEXT maps a handle to a position.  dirs holds the names  *)
(* whose directory _cntk_<name> exists.                                    *)

MaxInstances == 3

Handles == {"a", "b"}

\* A deletion that leaves the entry in place.
DictDelNothing(d, k) == d

\* del d[k], for a key of d
DictDel(d, k) == [n \in DOMAIN d \ {k} |-> d[n]]

\* What the last call was: its handle, the instance it returned or acted
\* on, how _CONTEXT and instances stood before it, the exception it ended
\* in, and the handles whose context has exited so far.
Call(op, h, obj, before, count, e, exited) ==
    [op |-> op, h |-> h, obj |-> obj, before |-> before, count |-> count,
     exc |-> e, exited |-> exited]

Exited == IF reg_last.op = "none" THEN {} ELSE reg_last.exited

\* LocalExecutionContext(name, clean_up=clean_up): the directory is made
\* when it does not exist.
Construct(name, clean_up) ==
    /\ instances' = Append(instances, [name |-> name, clean_up |-> clean_up])
    /\ dirs' = dirs \cup {name}

\* get_context(handle)
GetContextOf(handle, op) ==
    /\ IF handle \notin DOMAIN _CONTEXT
       THEN /\ Len(instances) < MaxInstances
            /\ Construct(handle, TRUE)
            /\ _CONTEXT' = DictSet(_CONTEXT, handle, Len(instances) + 1)
       ELSE UNCHANGED <<_CONTEXT, instances, dirs>>
    /\ reg_last' = Call(op, handle, _CONTEXT'[handle], _CONTEXT,
                        Len(instances), "none", Exited)

get_context ==
    /\ \E handle \in Handles : GetContextOf(handle, "get_context")
    /\ UNCHANGED <<decoderVars, resolverVars, shapesVars, sanitizerVars,
                   testVars, callVars, evalVars, deferredVars>>

\* get_new_context(): the loop ends with a handle that is not a key.
get_new_context ==
    /\ \E new_handle \in Handles \ DOMAIN _CONTEXT :
           GetContextOf(new_handle, "get_new_context")
    /\ UNCHANGED <<decoderVars, resolverVars, shapesVars, sanitizerVars,
                   testVars, callVars, evalVars, deferredVars>>

\* A context built by its constructor, outside the registry.
NewLocalExecutionContext ==
    /\ Len(instances) < MaxInstances
    /\ \E name \in Handles, clean_up \in BOOLEAN :
           /\ Construct(name, clean_up)
           /\ reg_last' = Call("__init__", name, Len(instances) + 1, _CONTEXT,
                               Len(instances), "none", Exited)
    /\ UNCHANGED _CONTEXT
    /\ UNCHANGED <<decoderVars, resolverVars, shapesVars, sanitizerVars,
                   testVars, callVars, evalVars, deferredVars>>

\* self.__enter__()
__enter__ ==
    /\ \E self \in 1..Len(instances) :
           /\ _CONTEXT' = DictSet(_CONTEXT, instances[self].name, self)
           /\ reg_last' = Call("__enter__", instances[self].name, self,
                               _CONTEXT, Len(instances), "none", Exited)
    /\ UNCHANGED <<instances, dirs>>
    /\ UNCHANGED <<decoderVars, resolverVars, shapesVars, sanitizerVars,
                   testVars, callVars, evalVars, deferredVars>>

\* self.__exit__(...): del raises KeyError when the name is not a key;
\* rmtree raises when the directory is gone.
__exit__ ==
    /\ \E self \in 1..Len(instances) :
           LET name == instances[self].name
           IN  IF name \notin DOMAIN _CONTEXT
               THEN /\ UNCHANGED <<_CONTEXT, dirs>>
                    /\ reg_last' = Call("__exit__", name, self, _CONTEXT,
                                        Len(instances), "KeyError",
                                        Exited \cup {name})
               ELSE /\ _CONTEXT' = DictDel(_CONTEXT, name)
                    /\ dirs' = IF instances[self].clean_up
                               THEN dirs \ {name} ELSE dirs
                    /\ reg_last' =
                           Call("__exit__", name, self, _CONTEXT,
                                Len(instances),
                                IF instances[self].clean_up /\ name \notin dirs
                                THEN "FileNotFoundError" ELSE "none",
                                Exited \cup {name})
    /\ UNCHANGED instances
    /\ UNCHANGED <<decoderVars, resolverVars, shapesVars, sanitizerVars,
                   testVars, callVars, evalVars, deferredVars>>

InitRegistry ==
    /\ _CONTEXT = EmptyDict
    /\ instances = <<>>
    /\ dirs \in SUBSET Handles
    /\ reg_last = [op |-> "none"]

NextRegistry ==
    \/ get_context
    \/ get_new_context
    \/ NewLocalExecutionContext
    \/ __enter__
    \/ __exit__

RegistryInit ==
    /\ InitRegistry
    /\ IdleDecoder /\ IdleResolver /\ IdleShapes
    /\ IdleSanitizer /\ IdleTest /\ IdleCall /\ IdleEval /\ IdleDeferred

SpecRegistry == RegistryInit /\ [][NextRegistry]_vars

GotContext == reg_last.op \in {"get_context", "get_new_context"}

\* C15: a get_context(h) that finds h registered returns the instance
\* registered under h and creates nothing; one that finds h absent creates
\* one new instance, registers it under h and returns it; after a context
\* named h has exited, h is not a key of _CONTEXT.
C15_Lifecycle ==
    /\ GotContext =>
           /\ reg_last.h \in DOMAIN _CONTEXT
           /\ _CONTEXT[reg_last.h] = reg_last.obj
           /\ \A k \in DOMAIN reg_last.before \ {reg_last.h} :
                  k \in DOMAIN _CONTEXT /\ _CONTEXT[k] = reg_last.before[k]
           /\ IF reg_last.h \in DOMAIN reg_last.before
              THEN /\ reg_last.obj = reg_last.before[reg_last.h]
                   /\ Len(instances) = reg_last.count
              ELSE /\ Len(instances) = reg_last.count + 1
                   /\ reg_last.obj = Len(instances)
                   /\ instances[reg_last.obj].name = reg_last.h
    /\ reg_last.op = "get_new_context" =>
           reg_last.h \notin DOMAIN reg_last.before
    /\ reg_last.op = "__exit__" =>
           /\ reg_last.h \notin DOMAIN _CONTEXT
           /\ \A k \in DOMAIN reg_last.before \ {reg_last.h} :
                  k \in DOMAIN _CONTEXT /\ _CONTEXT[k] = reg_last.before[k]

\* The same handle asked for twice in a row gives the same instance, and
\* the first call after that handle's context exited gives a new one.
C15_RepeatedAndFresh ==
    [][/\ (GotContext /\ GotContext' /\ reg_last'.h = reg_last.h)
              => reg_last'.obj = reg_last.obj
       /\ (reg_last.op = "__exit__" /\ GotContext'
               /\ reg_last'.h = reg_last.h)
              => (reg_last'.obj = Len(instances) + 1
                      /\ reg_last'.obj # reg_last.obj)]_vars

\* A handle is registered again, with a new instance, after the context
\* first created for it has exited.
C15_Witness ==
    /\ reg_last.op = "get_context"
    /\ reg_last.h \in reg_last.exited
    /\ reg_last.h \notin DOMAIN reg_last.before
    /\ reg_last.obj = 2
    /\ instances[1].name = reg_last.h
    /\ _CONTEXT[reg_last.h] = 2

-----------------------------------------------------------------------------
(* The entries of the list _parse_result_output returns, against the runs  *)
(* of lines with one leading index.                                        *)

AllLines == SplitLines(output)

\* The lines that open a maximal run of lines with the same leading index.
RunStarts ==
    {i \in 1..Len(AllLines) :
         i = 1 \/ SeqIdx(AllLines[i]) # SeqIdx(AllLines[i - 1])}

\* The last line of the run that line i opens.
RunEnd(i) ==
    CHOOSE j \in i..Len(AllLines) :
        /\ \A m \in (i + 1)..j : m \notin RunStarts
        /\ j = Len(AllLines) \/ (j + 1) \in RunStarts

\* The k-th smallest member of a set of line numbers.
Kth(S, k) == CHOOSE i \in S : Cardinality({j \in S : j <= i}) = k

\* The values of the lines after the first of the run that line i opens.
RunValues(i) ==
    Concat([m \in 1..(RunEnd(i) - i) |->
                _sanitized_asarray(Data(AllLines[i + m])).arr.elems])

\* C16 as stated: the returned list has one entry per run, in order, and
\* the k-th entry holds one tensor per line that follows the shape line in
\* the k-th run, also for a run that is its shape line alone.
C16_AsStated ==
    pc = "returned" =>
        /\ Len(result[1]) = Cardinality(RunStarts)
        /\ \A k \in 1..Len(result[1]) :
               NumTensors(result[1][k]) = RunEnd(Kth(RunStarts, k)) - Kth(RunStarts, k)

\* The runs that get an entry: those with a line after their shape line,
\* and the last run whatever it holds.
EntryRuns == {i \in RunStarts : RunEnd(i) > i \/ RunEnd(i) = Len(AllLines)}

\* C16: the returned list has one entry per run that has a line after its
\* shape line, in order, and after them one entry for the last run when
\* that run is its shape line alone; for a text of no lines it is one
\* empty entry.  The k-th entry holds one tensor per line that follows the
\* shape line in its run, in line order.
C16_EntriesPerRun ==
    pc = "returned" =>
        /\ Len(result[1]) = IF AllLines = <<>> THEN 1 ELSE Cardinality(EntryRuns)
        /\ AllLines = <<>> => NumTensors(result[1][1]) = 0
        /\ AllLines # <<>> =>
               \A k \in 1..Len(result[1]) :
                   LET i == Kth(EntryRuns, k)
                   IN  /\ NumTensors(result[1][k]) = RunEnd(i) - i
                       /\ Len(TensorShape(result[1][k])) <= 1 =>
                              result[1][k].elems = RunValues(i)

\* Two shape lines with no line between them, then a data line: the first
\* sequence has no entry.
C16_Witness ==
    /\ pc = "returned"
    /\ AllLines = <<SHAPE_0, SHAPE_1, DATA_1A>>
    /\ Len(result[1]) = 1
    /\ result[1][1].elems = <<F22>>

-----------------------------------------------------------------------------
(* LocalExecutionContext.eval.  node_tag is the node's tag attribute: None *)
(* for a node whose tag is None or that has no tag, else the tag's value.  *)
(* The external tool behaves as proc_exit, proc_output and proc_decodes    *)
(* say.                                                                    *)

NodeTags == {None, Some("output"), Some("criterion")}

EvalLogs == {<<>>, LOG_Z, LOG_NETWORK}

\* What open(out_name).read() finds: no file, or the file's text.
ResultFiles == {None} \cup {Some(t) : t \in {<<>>, DocExample, DATA_0, NO_BAR}}

\* How the call ended: the stage it reached, the exception that left it,
\* the node's tag and the files as the call leaves them, the data returned.
Ended(stage, e, tag, fs, data) ==
    [stage |-> stage, exc |-> e, tag |-> tag, files |-> fs, data |-> data]

\* eval(node, input_map, backward_pass, input_name) for a node whose tag
\* is tag: is_node tells whether node is a ComputationNode, has_input_name
\* whether input_name is given, generates whether _generate_eval_config
\* returns, and result_file what the output file holds after the run.
eval(tag, fs, is_node, backward_pass, has_input_name, generates, exit_status, text, decodes, result_file) ==
    IF ~is_node \/ (backward_pass /\ ~has_input_name)
    THEN Ended("arguments", "ValueError", tag, fs, None)
    ELSE IF ~generates
    THEN Ended("config", "Exception", Some("output"), fs, None)
    ELSE LET run == _call_cntk(fs, CONFIG_CONTENT, <<"E", "v", "a", "l">>,
                               exit_status, text, decodes)
         IN  IF run.exc # "none"
             THEN Ended("run", run.exc, Some("output"), run.files, None)
             ELSE IF result_file = None
             THEN Ended("read", "IOError", tag, run.files, None)
             ELSE LET parsed == _parse_result_output(result_file[1])
                  IN  IF parsed.exc # "none"
                      THEN Ended("decode", parsed.exc, tag, run.files, None)
                      ELSE Ended("returned", "none", tag, run.files,
                                 Some(parsed.value))

InitEval ==
    /\ node_tag \in NodeTags
    /\ eval_out = NoEval
    /\ proc_exit \in 0..MaxExit
    /\ proc_output \in EvalLogs
    /\ proc_decodes \in BOOLEAN
    /\ proc_output = <<>> => proc_decodes
    /\ files = NoFiles
    /\ call_out = [status |-> "idle", exc |-> "none", value |-> None]

Eval ==
    /\ eval_out.status = "idle"
    /\ \E is_node, backward_pass, has_input_name, generates \in BOOLEAN,
          result_file \in ResultFiles :
           LET r == eval(node_tag, files, is_node, backward_pass,
                         has_input_name, generates, proc_exit, proc_output,
                         proc_decodes, result_file)
           IN  /\ node_tag' = r.tag
               /\ files' = r.files
               /\ eval_out' = [status |-> "called", stage |-> r.stage,
                               exc |-> r.exc, orig |-> node_tag,
                               data |-> r.data]
    /\ UNCHANGED <<proc_exit, proc_output, proc_decodes, call_out,
                   decoderVars, resolverVars, shapesVars, sanitizerVars,
                   testVars, registryVars, deferredVars>>

NextEval == Eval

EvalInit ==
    /\ InitEval
    /\ IdleDecoder /\ IdleResolver /\ IdleShapes
    /\ IdleSanitizer /\ IdleTest /\ IdleRegistry /\ IdleDeferred

SpecEval == EvalInit /\ [][NextEval]_vars

\* The call got past its argument checks, so the tag was set to 'output'.
TagWasSet == eval_out.status = "called" /\ eval_out.stage # "arguments"

\* C17: however eval ends once it has set the node's tag to 'output', the
\* node's tag is what it was before the call.
C17_AsStated == TagWasSet => node_tag = eval_out.orig

\* The tag is back once the external run has returned its text: on normal
\* return and on an error while reading or decoding the output file.
C17_RestoredAfterRun ==
    (TagWasSet /\ eval_out.stage \in {"read", "decode", "returned"})
        => node_tag = eval_out.orig

-----------------------------------------------------------------------------
(* DeferredExecutionContext: the action calls collect configurations, and  *)
(* export writes them to one file.  directory is None until export has     *)
(* assigned the attribute.                                                 *)

MaxActions == 3

ACTION_WRITE ==
    <<"W", "r", "i", "t", "e">>

ACTION_EVAL ==
    <<"E", "v", "a", "l">>

ACTION_NAME_EQ ==
    <<"A", "c", "t", "i", "o", "n", "N", "a", "m", "e", "=">>

\* The text a _generate_*_config call returns for action_name: the global
\* parameters, then the template filled in with the action's name.
GeneratedConfig(action_name) ==
    CONFIG_CONTENT \o ACTION_NAME_EQ \o action_name \o <<"\n">>

\* sep.join(ls) for a one-character separator
RECURSIVE Join(_, _)
Join(ls, sep) ==
    IF ls = <<>> THEN <<>>
    ELSE IF Len(ls) = 1 THEN ls[1]
    ELSE ls[1] \o <<sep>> \o Join(Tail(ls), sep)

\* An append that records the action's name and drops its configuration.
_append_config_name_only(cfg, acts, action_name, config_content) ==
    [config |-> cfg, actions |-> Append(acts, action_name)]

\* _append_config(action_name, config_content)
_append_config(cfg, acts, action_name, config_content) ==
    [config |-> Append(cfg, config_content),
     actions |-> Append(acts, action_name)]

\* The part the four action calls share: rejected is the ValueError of the
\* call's own argument checks, generates tells whether the generator's
\* calls into the graph, the reader and the templates return.  The
\* generator reads self.directory, which raises AttributeError while the
\* attribute is not set.
Action(op, action_name, rejected, generates) ==
    IF rejected
    THEN /\ def_last' = [op |-> op, exc |-> "ValueError"]
         /\ UNCHANGED <<config, actions, succeeded>>
    ELSE IF ~generates
    THEN /\ def_last' = [op |-> op, exc |-> "Exception"]
         /\ UNCHANGED <<config, actions, succeeded>>
    ELSE IF directory = None
    THEN /\ def_last' = [op |-> op, exc |-> "AttributeError"]
         /\ UNCHANGED <<config, actions, succeeded>>
    ELSE /\ Len(succeeded) < MaxActions
         /\ LET r == _append_config(config, actions, action_name,
                                    GeneratedConfig(action_name))
            IN  /\ config' = r.config
                /\ actions' = r.actions
         /\ succeeded' = Append(succeeded, action_name)
         /\ def_last' = [op |-> op, exc |-> "none"]

OtherThanDeferred ==
    <<decoderVars, resolverVars, shapesVars, sanitizerVars, testVars,
      callVars, registryVars>>

\* train(root_nodes, training_params, input_map, override_existing)
train ==
    /\ \E generates \in BOOLEAN : Action("train", ACTION_TRAIN, FALSE, generates)
    /\ UNCHANGED <<directory, exported, evalVars, OtherThanDeferred>>

\* test(root_nodes, input_map)
test ==
    /\ \E has_root_nodes, has_input_map, generates \in BOOLEAN :
           Action("test", ACTION_TEST, ~has_root_nodes /\ ~has_input_map,
                  generates)
    /\ UNCHANGED <<directory, exported, evalVars, OtherThanDeferred>>

\* write(input_map)
write ==
    /\ \E generates \in BOOLEAN : Action("write", ACTION_WRITE, FALSE, generates)
    /\ UNCHANGED <<directory, exported, evalVars, OtherThanDeferred>>

\* eval(node, input_map, backward_pass, input_name): the node's tag is set
\* once the arguments are accepted, and never restored.
deferred_eval ==
    /\ \E is_node, backward_pass, has_input_name, generates \in BOOLEAN :
           LET rejected == ~is_node \/ (backward_pass /\ ~has_input_name)
           IN  /\ Action("eval", ACTION_EVAL, rejected, generates)
               /\ node_tag' = IF rejected THEN node_tag ELSE Some("output")
    /\ UNCHANGED <<directory, exported, eval_out, OtherThanDeferred>>

\* export(name): written tells whether the directory and the file could be
\* made.
export ==
    /\ \E name \in {"a", "b"}, written \in BOOLEAN :
           /\ directory' = Some(name)
           /\ IF written
              THEN /\ exported' = Some(Join(config, "\n") \o COMMAND_EQ
                                           \o Join(actions, ":"))
                   /\ def_last' = [op |-> "export", exc |-> "none"]
              ELSE /\ UNCHANGED exported
                   /\ def_last' = [op |-> "export", exc |-> "OSError"]
    /\ UNCHANGED <<config, actions, succeeded, evalVars, OtherThanDeferred>>

InitDeferred ==
    /\ config = <<>>
    /\ actions = <<>>
    /\ directory = None
    /\ exported = None
    /\ succeeded = <<>>
    /\ def_last = [op |-> "none"]

NextDeferred ==
    \/ train
    \/ test
    \/ write
    \/ deferred_eval
    \/ export

DeferredInit ==
    /\ InitDeferred
    /\ IdleDecoder /\ IdleResolver /\ IdleShapes
    /\ IdleSanitizer /\ IdleTest /\ IdleCall /\ IdleRegistry /\ IdleEval

SpecDeferred == DeferredInit /\ [][NextDeferred]_vars

\* The names of the calls that returned, joined with ":".
RECURSIVE ColonJoined(_)
ColonJoined(names) ==
    IF names = <<>> THEN <<>>
    ELSE IF Len(names) = 1 THEN names[1]
    ELSE names[1] \o <<":">> \o ColonJoined(Tail(names))

\* The last characters of a text.
Suffix(s, n) == SubSeq(s, Len(s) - n + 1, Len(s))

CommandLine == COMMAND_EQ \o ColonJoined(succeeded)

\* C18: config and actions have the same length; actions holds the names
\* of the calls that returned, in call order, and config the text generated
\* for each; a call that ends in an error changes neither list; export
\* leaves both lists as they are, and the file it writes ends with
\* `command=` followed by those names joined with `:`.
C18_ListsInStep ==
    /\ [](/\ Len(config) = Len(actions)
          /\ actions = succeeded
          /\ \A i \in 1..Len(config) : config[i] = GeneratedConfig(succeeded[i])
          /\ (def_last.op = "export" /\ def_last.exc = "none") =>
                 /\ exported # None
                 /\ Len(exported[1]) >= Len(CommandLine)
                 /\ Suffix(exported[1], Len(CommandLine)) = CommandLine
                 /\ IndexOf(ColonJoined(succeeded), "\n") = 0)
    /\ [][/\ def_last'.exc # "none" => (config' = config /\ actions' = actions)
          /\ def_last'.op = "export" => (config' = config /\ actions' = actions)
          /\ (def_last'.exc = "none" /\ def_last'.op # "export") =>
                 (/\ Len(actions') = Len(actions) + 1
                  /\ SubSeq(actions', 1, Len(actions)) = actions
                  /\ SubSeq(config', 1, Len(config)) = config)]_vars

COMMAND_TRAIN_EVAL ==
    <<"c", "o", "m", "m", "a", "n", "d", "=", "T", "r", "a", "i", "n", ":",
      "E", "v", "a", "l">>

\* train and eval returned in that order after a rejected test, and export
\* wrote the file.
C18_Witness ==
    /\ def_last = [op |-> "export", exc |-> "none"]
    /\ actions = <<ACTION_TRAIN, ACTION_EVAL>>
    /\ Len(config) = 2
    /\ Suffix(exported[1], Len(COMMAND_TRAIN_EVAL)) = COMMAND_TRAIN_EVAL

====
